---- MODULE Spec2Model ----
(***************************************************************************)
(* A model of lispfmt (src/src/lib.rs): the `format` driver with its       *)
(* peekable token iterator, and the `Formatter` state machine it feeds.    *)
(* Text is modelled as a sequence of one-character strings, so that        *)
(* columns, line breaks and trailing characters are observable.            *)
(***************************************************************************)
EXTENDS Integers, Sequences, FiniteSets, TLC

\* Longest token stream the iterator yields.
MaxTokens == 5

\* Values of the default_indentation argument of format.
DefaultIndentations == {0, 2}

NL == "\n"
SP == " "

----------------------------------------------------------------------------
(* Option<usize> of Atom::custom_indentation *)
None == [some |-> FALSE, val |-> 0]
Some(n) == [some |-> TRUE, val |-> n]

(* enum Token; every variant carries the same fields so that tokens of     *)
(* different variants can be compared.                                     *)
Tok(k, t, w, ci) == [kind |-> k, text |-> t, width |-> w, custom_indentation |-> ci]

\* Atoms: text, Atom::width (equal to the length of the rendering) and
\* Atom::custom_indentation.
Atoms ==
  { Tok("Atom", <<"a">>, 1, None),
    Tok("Atom", <<"b", "b">>, 2, None),
    Tok("Atom", <<"k">>, 1, Some(2)),
    Tok("Atom", <<"z", "z">>, 2, Some(0)) }

LParen == Tok("LParen", <<"(">>, 1, None)
RParen == Tok("RParen", <<")">>, 1, None)
NewLine == Tok("NewLine", <<NL>>, 0, None)

\* Prefix operators: printable ASCII, width = number of bytes.
PrefixOperators ==
  { Tok("PrefixOperator", <<"'">>, 1, None),
    Tok("PrefixOperator", <<",", "@">>, 2, None) }

\* Line comments: no embedded line break.
Comments == { Tok("Comment", <<";", "c">>, 2, None) }

Token == Atoms \cup {LParen, RParen, NewLine} \cup PrefixOperators \cup Comments

\* Peekable: nothing buffered / the buffered end of the iterator.
NoPeek == Tok("NoPeek", <<>>, 0, None)
EndOfStream == Tok("End", <<>>, 0, None)

----------------------------------------------------------------------------
(* Text helpers *)
Last(s) == s[Len(s)]

\* Vec::pop / String::pop: a no-op on an empty vector.
Pop(s) == IF s = <<>> THEN s ELSE SubSeq(s, 1, Len(s) - 1)

\* str::ends_with('\n')
EndsWithNL(out) == out # <<>> /\ Last(out) = NL

\* str::ends_with("\n\n")
EndsWithTwoNL(out) == Len(out) >= 2 /\ out[Len(out)] = NL /\ out[Len(out) - 1] = NL

\* core::iter::repeat(' ').take(n)
Spaces(n) == [i \in 1..n |-> SP]

\* An `if` in place of the `while`: one trailing line break removed.
StripTrailingNewLines_Once(out) ==
  IF EndsWithNL(out) THEN Pop(out) ELSE out

\* while self.output.ends_with('\n') { self.output.pop(); }
RECURSIVE StripTrailingNewLines(_)
StripTrailingNewLines(out) ==
  IF EndsWithNL(out) THEN StripTrailingNewLines(Pop(out)) ELSE out

----------------------------------------------------------------------------
(* struct Formatter *)
NewFormatter(di) ==
  [ output |-> <<>>,
    default_indentation |-> di,
    preceded_by_expression |-> FALSE,
    levels |-> <<>>,
    is_operator |-> <<>>,
    awaiting_new_level |-> FALSE,
    x |-> 0 ]

\* self.is_operator.last() == Some(&true)
OperatorOnTop(f) == f.is_operator # <<>> /\ Last(f.is_operator)

\* A pop that forgets the parallel stack.
PopLevel_LevelsOnly(f) == [f EXCEPT !.levels = Pop(@)]

PopLevel(f) == [f EXCEPT !.levels = Pop(@), !.is_operator = Pop(@)]

PushLevel(f, level, op) ==
  [f EXCEPT !.levels = Append(@, level), !.is_operator = Append(@, op)]

\* A leading_space that indents new lines but never separates two tokens.
leading_space_NoSeparator(f) ==
  IF EndsWithNL(f.output)
  THEN LET nx == IF f.levels = <<>> THEN 0 ELSE Last(f.levels)
       IN [f EXCEPT !.x = nx, !.output = @ \o Spaces(nx)]
  ELSE f

leading_space(f) ==
  IF EndsWithNL(f.output)
  THEN LET nx == IF f.levels = <<>> THEN 0 ELSE Last(f.levels)
       IN [f EXCEPT !.x = nx, !.output = @ \o Spaces(nx)]
  ELSE IF f.preceded_by_expression
       THEN [f EXCEPT !.output = Append(@, SP), !.x = @ + 1]
       ELSE f

put_default_level_or_leading_space(f) ==
  IF f.awaiting_new_level
  THEN PushLevel(f, f.x + f.default_indentation - 1, FALSE)
  ELSE leading_space(f)

\* The level a head atom resolves for its list.
AtomLevel(x, width, ci) ==
  IF ci.some THEN x + ci.val - 1 ELSE x + width + 1

token_Atom(f, atom) ==
  LET f1 == IF f.awaiting_new_level
            THEN PushLevel(f, AtomLevel(f.x, atom.width, atom.custom_indentation), FALSE)
            ELSE leading_space(f)
      f2 == [f1 EXCEPT !.x = @ + atom.width,
                       !.output = @ \o atom.text,
                       !.preceded_by_expression = TRUE,
                       !.awaiting_new_level = FALSE]
  IN IF OperatorOnTop(f2) THEN PopLevel(f2) ELSE f2

\* An LParen that does not advance x.
token_LParen_KeepsX(f) ==
  LET f1 == put_default_level_or_leading_space(f)
  IN [f1 EXCEPT !.output = Append(@, "("),
                !.preceded_by_expression = FALSE,
                !.awaiting_new_level = TRUE]

token_LParen(f) ==
  LET f1 == put_default_level_or_leading_space(f)
  IN [f1 EXCEPT !.output = Append(@, "("),
                !.x = @ + 1,
                !.preceded_by_expression = FALSE,
                !.awaiting_new_level = TRUE]

\* An RParen that pops without looking at awaiting_new_level.
token_RParen_PopsAlways(f) ==
  LET f1 == [f EXCEPT !.output = Append(StripTrailingNewLines(@), ")"),
                      !.x = @ + 1]
      f2 == PopLevel(IF OperatorOnTop(f1) THEN PopLevel(f1) ELSE f1)
  IN [f2 EXCEPT !.preceded_by_expression = TRUE,
                !.awaiting_new_level = FALSE]

\* An RParen that gives up, writing nothing, when there is no level to pop.
token_RParen_SkipsOnUnderflow(f) ==
  IF ~f.awaiting_new_level /\ f.levels = <<>> THEN f
  ELSE
  LET f1 == [f EXCEPT !.output = Append(StripTrailingNewLines(@), ")"),
                      !.x = @ + 1]
      f2 == IF ~f1.awaiting_new_level
            THEN PopLevel(IF OperatorOnTop(f1) THEN PopLevel(f1) ELSE f1)
            ELSE f1
  IN [f2 EXCEPT !.preceded_by_expression = TRUE,
                !.awaiting_new_level = FALSE]

token_RParen(f) ==
  LET f1 == [f EXCEPT !.output = Append(StripTrailingNewLines(@), ")"),
                      !.x = @ + 1]
      f2 == IF ~f1.awaiting_new_level
            THEN PopLevel(IF OperatorOnTop(f1) THEN PopLevel(f1) ELSE f1)
            ELSE f1
  IN [f2 EXCEPT !.preceded_by_expression = TRUE,
                !.awaiting_new_level = FALSE]

\* A PrefixOperator that always pushes its own entry.
token_PrefixOperator_NoMerge(f, op) ==
  LET f1 == put_default_level_or_leading_space(f)
      f2 == [f1 EXCEPT !.output = @ \o op.text,
                       !.x = @ + Len(op.text),
                       !.preceded_by_expression = FALSE,
                       !.awaiting_new_level = FALSE]
  IN PushLevel(f2, f2.x, TRUE)

token_PrefixOperator(f, op) ==
  LET f1 == put_default_level_or_leading_space(f)
      f2 == [f1 EXCEPT !.output = @ \o op.text,
                       !.x = @ + Len(op.text),
                       !.preceded_by_expression = FALSE,
                       !.awaiting_new_level = FALSE]
  IN IF f2.levels # <<>> /\ OperatorOnTop(f2)
     THEN [f2 EXCEPT !.levels[Len(f2.levels)] = f2.x]
     ELSE PushLevel(f2, f2.x, TRUE)

\* A NewLine that only refuses a second blank line.
token_NewLine_MayOpenBuffer(f) ==
  IF ~EndsWithTwoNL(f.output)
  THEN [f EXCEPT !.output = Append(@, NL),
                 !.preceded_by_expression = FALSE,
                 !.awaiting_new_level = FALSE]
  ELSE f

\* A NewLine that only refuses to open the buffer with a line break.
token_NewLine_NoBlankLimit(f) ==
  IF ~(f.output = <<>>)
  THEN [f EXCEPT !.output = Append(@, NL),
                 !.preceded_by_expression = FALSE,
                 !.awaiting_new_level = FALSE]
  ELSE f

token_NewLine(f) ==
  IF ~(f.output = <<>> \/ EndsWithTwoNL(f.output))
  THEN [f EXCEPT !.output = Append(@, NL),
                 !.preceded_by_expression = FALSE,
                 !.awaiting_new_level = FALSE]
  ELSE f

token_Comment(f, comment) ==
  LET f1 == put_default_level_or_leading_space(f)
      f2 == IF f1.awaiting_new_level
            THEN [f1 EXCEPT !.output = Append(@, SP)]
            ELSE f1
  IN [f2 EXCEPT !.output = (@ \o comment.text) \o <<NL>>,
                !.preceded_by_expression = FALSE,
                !.awaiting_new_level = FALSE]

\* Formatter::token
token(f, t) ==
  CASE t.kind = "Atom" -> token_Atom(f, t)
    [] t.kind = "LParen" -> token_LParen(f)
    [] t.kind = "RParen" -> token_RParen(f)
    [] t.kind = "PrefixOperator" -> token_PrefixOperator(f, t)
    [] t.kind = "NewLine" -> token_NewLine(f)
    [] t.kind = "Comment" -> token_Comment(f, t)

\* A format that only appends a missing line break.
PostProcess_NoTrim(out) ==
  IF out # <<>> /\ Last(out) # NL THEN Append(out, NL) ELSE out

\* A format that appends a line break without looking at the buffer's end.
PostProcess_AlwaysAppends(out) == Append(out, NL)

\* The normalisation of the finished buffer at the end of format.
PostProcess(out) ==
  IF out # <<>> /\ Last(out) # NL THEN Append(out, NL)
  ELSE IF EndsWithTwoNL(out) THEN Pop(out)
  ELSE out

\* The index of the first token at or after i that is not a NewLine.
RECURSIVE SkipNewLines(_, _)
SkipNewLines(tokens, i) ==
  IF i <= Len(tokens) /\ tokens[i] = NewLine
  THEN SkipNewLines(tokens, i + 1)
  ELSE i

\* The loop of format over a whole stream, from token i on.
RECURSIVE FeedAll(_, _, _)
FeedAll(f, tokens, i) ==
  IF i > Len(tokens) THEN f
  ELSE FeedAll(token(f, tokens[i]), tokens,
               IF tokens[i] = LParen THEN SkipNewLines(tokens, i + 1) ELSE i + 1)

\* format as a function of a stream whose atoms all render.
format(tokens, default_indentation) ==
  PostProcess(FeedAll(NewFormatter(default_indentation), tokens, 1).output)

----------------------------------------------------------------------------
VARIABLES
  formatter,   \* the Formatter of this pass
  peeked,      \* the buffer of tokens.peekable()
  pc,          \* "loop" while format pulls tokens, then "ok" or "err"
  result,      \* the String of Ok(..) once pc = "ok"
  pulled,      \* history: every token the iterator has yielded so far
  trace        \* history: each token given to Formatter::token, with the
               \* formatter before and after it

vars == <<formatter, peeked, pc, result, pulled, trace>>

Init ==
  /\ \E di \in DefaultIndentations : formatter = NewFormatter(di)
  /\ peeked = NoPeek
  /\ pc = "loop"
  /\ result = <<>>
  /\ pulled = <<>>
  /\ trace = <<>>

\* tokens.next() yields t: the buffered token if one was peeked, otherwise
\* a fresh token of the underlying iterator.
Yields(t) ==
  /\ pc = "loop"
  /\ IF peeked = NoPeek
     THEN Len(pulled) < MaxTokens
     ELSE peeked = t

PulledAfterNext(t) == IF peeked = NoPeek THEN Append(pulled, t) ELSE pulled

Entry(t, at, f) == [token |-> t, at |-> at, before |-> formatter, after |-> f]

\* One iteration of the loop for a token other than LParen.
Feed(t) ==
  /\ Yields(t)
  /\ formatter' = token(formatter, t)
  /\ peeked' = NoPeek
  /\ pulled' = PulledAfterNext(t)
  /\ trace' = Append(trace, Entry(t, Len(pulled'), formatter'))
  /\ UNCHANGED <<pc, result>>

\* An atom whose Display succeeds.
StepAtom ==
  \E t \in Atoms : Feed(t)

\* An atom whose Display fails, with the error dropped instead of returned:
\* the loop goes on with the next token.
StepAtomError_Ignored ==
  \E t \in Atoms :
    /\ Yields(t)
    /\ peeked' = NoPeek
    /\ pulled' = PulledAfterNext(t)
    /\ UNCHANGED <<formatter, pc, result, trace>>

\* An atom whose Display fails: write! returns Err and `?` leaves format.
StepAtomError ==
  \E t \in Atoms :
    /\ Yields(t)
    /\ pc' = "err"
    /\ peeked' = NoPeek
    /\ pulled' = PulledAfterNext(t)
    /\ UNCHANGED <<formatter, result, trace>>

\* LParen: the NewLine tokens that follow are pulled and dropped, the first
\* other item (a token or the end) stays in the peek buffer.
StepLParen ==
  /\ Yields(LParen)
  /\ LET p1 == PulledAfterNext(LParen)
     IN \E k \in 0..(MaxTokens - Len(p1)) :
          \E nxt \in (Token \ {NewLine}) \cup {EndOfStream} :
            /\ nxt # EndOfStream => Len(p1) + k < MaxTokens
            /\ pulled' = (p1 \o [i \in 1..k |-> NewLine])
                           \o (IF nxt = EndOfStream THEN <<>> ELSE <<nxt>>)
            /\ peeked' = nxt
            /\ formatter' = token(formatter, LParen)
            /\ trace' = Append(trace, Entry(LParen, Len(p1), formatter'))
  /\ UNCHANGED <<pc, result>>

StepRParen == Feed(RParen)

StepPrefixOperator == \E t \in PrefixOperators : Feed(t)

StepNewLine == Feed(NewLine)

StepComment == \E t \in Comments : Feed(t)

\* tokens.next() is None: normalise the end of the buffer and return it.
Finish ==
  /\ pc = "loop"
  /\ peeked \in {NoPeek, EndOfStream}
  /\ pc' = "ok"
  /\ result' = PostProcess(formatter.output)
  /\ UNCHANGED <<formatter, peeked, pulled, trace>>

Next ==
  \/ StepAtom
  \/ StepAtomError
  \/ StepLParen
  \/ StepRParen
  \/ StepPrefixOperator
  \/ StepNewLine
  \/ StepComment
  \/ Finish

Spec == Init /\ [][Next]_vars

----------------------------------------------------------------------------
(* Reading the history *)

Kind(i) == trace[i].token.kind

\* The text a token writes after its indentation or separating space.
Emitted(t) == IF t.kind = "Comment" THEN Len(t.text) + 1 ELSE Len(t.text)

\* Index of the last line break of a text, 0 when it has none.
LastBreak(out) ==
  LET S == {i \in 1..Len(out) : out[i] = NL}
  IN IF S = {} THEN 0 ELSE CHOOSE i \in S : \A j \in S : j <= i

\* Number of characters after the last line break: the column of the next one.
ColOf(out) == Len(out) - LastBreak(out)

EndsWithOneNL(out) == EndsWithNL(out) /\ ~EndsWithTwoNL(out)

\* The lists open after the first n tokens, as the indices of their LParen;
\* an RParen with no list open closes nothing.
RECURSIVE OpenStack(_)
OpenStack(n) ==
  IF n = 0 THEN <<>>
  ELSE IF Kind(n) = "LParen" THEN Append(OpenStack(n - 1), n)
  ELSE IF Kind(n) = "RParen" THEN Pop(OpenStack(n - 1))
  ELSE OpenStack(n - 1)

\* Token n is an RParen that arrives when every LParen is already closed.
ExcessRParen(n) == Kind(n) = "RParen" /\ OpenStack(n - 1) = <<>>

\* Token n starts a new output line: it writes text and the buffer before it
\* ended with a line break.
StartsLine(n) ==
  /\ Kind(n) \in {"Atom", "LParen", "PrefixOperator", "Comment"}
  /\ EndsWithNL(trace[n].before.output)

\* The spaces written in front of token n.
LeadingSpaces(n) ==
  Len(trace[n].after.output) - Len(trace[n].before.output) - Emitted(trace[n].token)

N == Len(trace)

----------------------------------------------------------------------------
(* C1 *)

----------------------------------------------------------------------------
(* C2 *)

\* C2: a token that starts a new output line while no list is open is
\* written with zero leading spaces.
C2_TopLevelLinesAtColumnZero ==
  \A n \in 1..N :
    (StartsLine(n) /\ OpenStack(n - 1) = <<>>) => LeadingSpaces(n) = 0

----------------------------------------------------------------------------
(* C3 *)

\* Token n completes the form that directly follows the prefix operator at
\* token FormOperator(n): an atom right after the operator, or the RParen
\* matching an LParen right after the operator.
FormOperator(n) ==
  IF Kind(n) = "Atom" THEN n - 1
  ELSE IF Kind(n) = "RParen" /\ OpenStack(n - 1) # <<>>
  THEN Last(OpenStack(n - 1)) - 1
  ELSE 0

CompletesPrefixedForm(n) ==
  /\ FormOperator(n) >= 1
  /\ Kind(FormOperator(n)) = "PrefixOperator"

\* C3: once the form that follows a prefix operator is complete, the
\* operator's transient entry is off levels and is_operator: the stacks are
\* the ones the operator left, without their top entry.
C3_OperatorEntryGoneAfterForm ==
  \A n \in 1..N :
    CompletesPrefixedForm(n) =>
      LET o == trace[FormOperator(n)].after
      IN /\ trace[n].after.levels = Pop(o.levels)
         /\ trace[n].after.is_operator = Pop(o.is_operator)

----------------------------------------------------------------------------
(* C4, C5 *)

\* The column of the "(" written by token p.
ParenColumn(p) == ColOf(trace[p].after.output) - 1

\* Token n starts a line directly inside the list opened by token
\* Enclosing(n), after that list's head.
Enclosing(n) == IF OpenStack(n - 1) = <<>> THEN 0 ELSE Last(OpenStack(n - 1))

ContinuesList(n) ==
  /\ StartsLine(n)
  /\ Enclosing(n) >= 1
  /\ Enclosing(n) + 1 < n

HeadOf(n) == trace[Enclosing(n) + 1].token

\* C4: in a list opened at column c whose head is a plain atom of width w,
\* a line that starts directly inside the list starts at column c + 1 + w + 1.
C4_PlainHeadContinuation ==
  \A n \in 1..N :
    ( /\ ContinuesList(n)
      /\ HeadOf(n).kind = "Atom"
      /\ ~HeadOf(n).custom_indentation.some ) =>
        LeadingSpaces(n) = ParenColumn(Enclosing(n)) + 1 + HeadOf(n).width + 1

\* Token h is the head atom of the list opened at token h - 1, and declares
\* a custom indentation.
CustomHead(h) ==
  /\ h >= 2
  /\ Kind(h - 1) = "LParen"
  /\ Kind(h) = "Atom"
  /\ trace[h].token.custom_indentation.some

\* C5: in a list opened at column c whose head atom declares the custom
\* indentation n, the level resolved for the list is c + n whatever the
\* width of the head, and a line that starts directly inside the list starts
\* at column c + n.
C5_CustomHeadContinuation ==
  /\ \A h \in 1..N :
       CustomHead(h) =>
         /\ trace[h].after.levels # <<>>
         /\ Last(trace[h].after.levels) =
              ParenColumn(h - 1) + trace[h].token.custom_indentation.val
  /\ \A n \in 1..N :
       (ContinuesList(n) /\ CustomHead(Enclosing(n) + 1)) =>
         LeadingSpaces(n) =
           ParenColumn(Enclosing(n)) + HeadOf(n).custom_indentation.val

----------------------------------------------------------------------------
(* C6 *)

\* The last two tokens given to the formatter are an LParen and an RParen:
\* an empty list, whatever NewLine tokens the stream had between the two.
EmptyListClosed ==
  /\ N >= 2
  /\ Kind(N - 1) = "LParen"
  /\ Kind(N) = "RParen"

\* The text of an empty list is "()" with nothing in between.
EmptyListText ==
  /\ Last(trace[N - 1].after.output) = "("
  /\ trace[N].after.output = Append(trace[N - 1].after.output, ")")

\* C6 as stated: an empty list is written "()" and the pair leaves levels
\* and is_operator as they were before its LParen.
C6_EmptyListPushesNothing ==
  EmptyListClosed =>
    /\ EmptyListText
    /\ trace[N].after.levels = trace[N - 1].before.levels
    /\ trace[N].after.is_operator = trace[N - 1].before.is_operator

\* C6 amended: an empty list is written "()", its RParen pops nothing, and
\* its LParen pushes nothing for the empty list itself: only when the LParen
\* is the head of an enclosing list does it push that list's default level.
C6_EmptyListPushesNoLevelOfItsOwn ==
  EmptyListClosed =>
    LET b == trace[N - 1].before
        l == trace[N - 1].after
        r == trace[N].after
    IN /\ EmptyListText
       /\ r.levels = l.levels
       /\ r.is_operator = l.is_operator
       /\ l.levels = IF b.awaiting_new_level
                      THEN Append(b.levels, b.x + b.default_indentation - 1)
                      ELSE b.levels
       /\ l.is_operator = IF b.awaiting_new_level
                           THEN Append(b.is_operator, FALSE)
                           ELSE b.is_operator

\* An empty list with a NewLine between its parentheses, closed while the
\* stacks hold a level.
C6_Witness ==
  /\ EmptyListClosed
  /\ trace[N].at > trace[N - 1].at + 1
  /\ pulled[trace[N - 1].at + 1] = NewLine
  /\ trace[N].after.levels # <<>>

----------------------------------------------------------------------------
(* C7 *)

\* Character i of the text is preceded by a line break and then only spaces.
OnlyBlanksBefore(out, i) ==
  \E j \in 1..(i - 1) :
    /\ out[j] = NL
    /\ \A k \in (j + 1)..(i - 1) : out[k] = SP

NoDanglingClose(out) ==
  \A i \in 1..Len(out) : out[i] = ")" => ~OnlyBlanksBefore(out, i)

----------------------------------------------------------------------------
(* C8 *)

\* C8 as stated: an excess RParen is still written and leaves levels and
\* is_operator unchanged.
C8_ExcessRParenKeepsStacks ==
  \A n \in 1..N :
    ExcessRParen(n) =>
      /\ trace[n].after.output =
           Append(StripTrailingNewLines(trace[n].before.output), ")")
      /\ trace[n].after.levels = trace[n].before.levels
      /\ trace[n].after.is_operator = trace[n].before.is_operator

\* C8 amended: an excess RParen is still written; it leaves levels and
\* is_operator unchanged, except that it pops the transient entry of a
\* prefix operator when one is on top of the stacks.
C8_ExcessRParenPopsOnlyOperator ==
  \A n \in 1..N :
    ExcessRParen(n) =>
      LET b == trace[n].before
          a == trace[n].after
      IN /\ a.output = Append(StripTrailingNewLines(b.output), ")")
         /\ a.levels = IF OperatorOnTop(b) THEN Pop(b.levels) ELSE b.levels
         /\ a.is_operator = IF OperatorOnTop(b) THEN Pop(b.is_operator)
                             ELSE b.is_operator

\* A list was opened and closed, an excess RParen followed, and a later
\* token was formatted after it.
C8_Witness ==
  \E n \in 2..(N - 1) :
    /\ ExcessRParen(n)
    /\ \E m \in 1..(n - 1) : Kind(m) = "LParen"
    /\ trace[n].before.levels = <<>>

----------------------------------------------------------------------------
(* C9 *)

\* Tokens i..n are consecutive prefix operators and token i is the first of
\* the run.
OperatorRun(i, n) ==
  /\ i <= n
  /\ \A j \in i..n : Kind(j) = "PrefixOperator"
  /\ i > 1 => Kind(i - 1) # "PrefixOperator"

RECURSIVE SumOfLengths(_, _)
SumOfLengths(i, n) ==
  IF i > n THEN 0 ELSE Len(trace[i].token.text) + SumOfLengths(i + 1, n)

\* The column at which the text of token i starts.
StartColumn(i) == ColOf(trace[i].after.output) - Len(trace[i].token.text)

\* C9: after a run of consecutive prefix operators the stacks are as deep as
\* after the first of them, exactly one operator entry is on top, and its
\* level is the column at which the first operator started plus the sum of
\* the operators' lengths.
C9_OperatorsMerge ==
  \A i \in 1..N : \A n \in i..N :
    OperatorRun(i, n) =>
      LET a == trace[n].after
          d == Len(a.levels)
      IN /\ d = Len(trace[i].after.levels)
         /\ Len(a.is_operator) = d
         /\ d >= 1
         /\ a.is_operator[d]
         /\ d >= 2 => ~a.is_operator[d - 1]
         /\ a.levels[d] = StartColumn(i) + SumOfLengths(i, n)

----------------------------------------------------------------------------
(* C10 *)

OnlyAtomsAndNewLines ==
  \A i \in 1..Len(pulled) : pulled[i].kind \in {"Atom", "NewLine"}

HasAtom == \E i \in 1..Len(pulled) : pulled[i].kind = "Atom"

\* What the claim prescribes for a flat stream: atoms in input order, one
\* space between atoms of a line, the line breaks of the input with no break
\* before the first atom, at most one blank line between atoms, and none
\* after the last atom but the closing one.  `text` is what is written so
\* far, `breaks` the NewLine tokens seen since the last atom.
RECURSIVE FlatText(_, _, _)
FlatText(i, text, breaks) ==
  IF i > Len(pulled)
  THEN text
  ELSE IF pulled[i].kind = "NewLine"
  THEN FlatText(i + 1, text, breaks + 1)
  ELSE LET sep == IF text = <<>> THEN <<>>
                  ELSE IF breaks = 0 THEN <<SP>>
                  ELSE IF breaks = 1 THEN <<NL>>
                  ELSE <<NL, NL>>
       IN FlatText(i + 1, (text \o sep) \o pulled[i].text, 0)

\* C10 as stated: the text of a flat stream is its atoms laid out as above
\* and always has exactly one trailing line break.
C10_FlatStream ==
  (pc = "ok" /\ OnlyAtomsAndNewLines) =>
    /\ result = Append(FlatText(1, <<>>, 0), NL)
    /\ EndsWithOneNL(result)

\* C10 amended: the same, for a flat stream with at least one atom; a flat
\* stream without atoms returns the empty text.
C10_FlatStreamWithAtoms ==
  (pc = "ok" /\ OnlyAtomsAndNewLines) =>
    IF HasAtom
    THEN /\ result = Append(FlatText(1, <<>>, 0), NL)
         /\ EndsWithOneNL(result)
    ELSE result = <<>>

\* A flat stream with a leading NewLine, two atoms on a line, and a blank
\* line at the end was formatted.
C10_Witness ==
  /\ pc = "ok"
  /\ OnlyAtomsAndNewLines
  /\ Len(pulled) >= 5
  /\ pulled[1] = NewLine
  /\ pulled[2].kind = "Atom"
  /\ pulled[3].kind = "Atom"
  /\ pulled[4] = NewLine
  /\ pulled[5] = NewLine

----------------------------------------------------------------------------
(* C11 *)

\* The rendering of an atom has failed: the last token the iterator yielded
\* was handed to the formatter (it is not in the peek buffer) and did not
\* complete.
RenderingFailed ==
  /\ pulled # <<>>
  /\ peeked = NoPeek
  /\ (N = 0 \/ trace[N].at < Len(pulled))

\* Every token the iterator yielded was formatted, or was a NewLine dropped
\* after an LParen.
AllTokensProcessed ==
  /\ peeked \in {NoPeek, EndOfStream}
  /\ \A i \in 1..Len(pulled) :
       \/ \E n \in 1..N : trace[n].at = i /\ trace[n].token = pulled[i]
       \/ /\ pulled[i] = NewLine
          /\ \E n \in 1..N :
               /\ Kind(n) = "LParen"
               /\ trace[n].at < i
               /\ \A j \in (trace[n].at + 1)..i : pulled[j] = NewLine

\* C11: format returns an error exactly when the rendering of an atom has
\* failed, at that token and with no text; after the failure no token is
\* pulled or formatted; and format returns Ok only when every token was
\* processed without a failure.
C11_FailsAtomically ==
  /\ [](RenderingFailed <=> pc = "err")
  /\ [](pc = "err" => (result = <<>> /\ Last(pulled).kind = "Atom"))
  /\ [](pc = "ok" => AllTokensProcessed)
  /\ [][RenderingFailed => UNCHANGED <<pulled, trace, formatter, result>>]_vars

\* An atom failed to render after text had been written to the buffer, and
\* format returned the error without any of it.
C11_Witness ==
  /\ pc = "err"
  /\ N >= 2
  /\ formatter.output # <<>>
  /\ result = <<>>

----------------------------------------------------------------------------
(* C12 *)

\* C12: in the returned text the text of every Comment is immediately
\* followed by a line break.
C12_CommentEndsItsLine ==
  pc = "ok" =>
    \A n \in 1..N :
      Kind(n) = "Comment" =>
        LET p == Len(trace[n].after.output)
        IN Len(result) >= p /\ result[p] = NL

----------------------------------------------------------------------------
(* C13 *)

\* The tokens of a stream that are not NewLine tokens, in order.
RECURSIVE WithoutNewLines(_)
WithoutNewLines(tokens) ==
  IF tokens = <<>> THEN <<>>
  ELSE IF tokens[1] = NewLine THEN WithoutNewLines(Tail(tokens))
  ELSE <<tokens[1]>> \o WithoutNewLines(Tail(tokens))

\* Reading a formatted text back as a token stream: the given tokens in
\* order, found at their texts, a NewLine token for every line break, spaces
\* skipped.  With ownBreak, the line break that ends a comment belongs to
\* the Comment token and yields no NewLine token.
RECURSIVE ReTokenize(_, _, _, _)
ReTokenize(text, pos, tokens, ownBreak) ==
  IF pos > Len(text) THEN <<>>
  ELSE IF text[pos] = NL
  THEN <<NewLine>> \o ReTokenize(text, pos + 1, tokens, ownBreak)
  ELSE IF text[pos] = SP \/ tokens = <<>>
  THEN ReTokenize(text, pos + 1, tokens, ownBreak)
  ELSE LET t == tokens[1]
           e == pos + Len(t.text)
           next == IF /\ ownBreak
                      /\ t.kind = "Comment"
                      /\ e <= Len(text)
                      /\ text[e] = NL
                   THEN e + 1 ELSE e
       IN <<t>> \o ReTokenize(text, next, Tail(tokens), ownBreak)

\* C13 as stated: re-tokenizing the returned text, with a NewLine token
\* wherever it has a line break, and formatting again returns the same text.
C13_StableUnderRepetition ==
  pc = "ok" =>
    format(ReTokenize(result, 1, WithoutNewLines(pulled), FALSE),
           formatter.default_indentation) = result

\* C13 amended: the same, when the line break that ends a comment is read
\* back as part of the Comment token and not as a NewLine token.
C13_StableWithCommentBreaks ==
  pc = "ok" =>
    format(ReTokenize(result, 1, WithoutNewLines(pulled), TRUE),
           formatter.default_indentation) = result

\* A text with a comment, a line indented inside a list and a blank line
\* that was written was formatted a second time.
C13_Witness ==
  /\ pc = "ok"
  /\ \E n \in 1..N : Kind(n) = "Comment"
  /\ \E n \in 1..N : StartsLine(n) /\ LeadingSpaces(n) > 0
  /\ \E i \in 1..(Len(result) - 1) : result[i] = NL /\ result[i + 1] = NL

\* The function format and the loop of format agree on every stream.
FormatAgrees ==
  pc = "ok" => result = format(pulled, formatter.default_indentation)

----------------------------------------------------------------------------
(* C14 *)

\* C14: after every token, excess RParen tokens included, levels and
\* is_operator have the same length.
C14_StacksSameLength ==
  /\ Len(formatter.levels) = Len(formatter.is_operator)
  /\ N >= 1 => Len(trace[N].after.levels) = Len(trace[N].after.is_operator)

\* An excess RParen popped from empty stacks, and later tokens pushed a
\* list's level and an operator's entry and popped the latter.
C14_Witness ==
  /\ N >= 4
  /\ \E n \in 1..(N - 1) : ExcessRParen(n) /\ trace[n].before.levels = <<>>
  /\ \E n \in 1..N : Len(trace[n].after.levels) = 2
  /\ Len(formatter.levels) = 1

----------------------------------------------------------------------------
(* C15 *)

\* C15: after each token, whenever the output does not end with a line
\* break, x is the number of characters in the output since its last line
\* break.
C15_XIsTheColumn ==
  \A n \in 1..N :
    LET a == trace[n].after
    IN ~EndsWithNL(a.output) => a.x = ColOf(a.output)

----------------------------------------------------------------------------
(* C16 *)

----------------------------------------------------------------------------
(* C17 *)

\* The number of entries of is_operator that are FALSE.
NonOperatorEntries(f) ==
  Cardinality({i \in 1..Len(f.is_operator) : ~f.is_operator[i]})

\* Token h is the first token after the LParen at token h - 1 and is not a
\* plain atom: the list's level is the default one.
DefaultHead(h) ==
  /\ h >= 2
  /\ Kind(h - 1) = "LParen"
  /\ Kind(h) \in {"LParen", "PrefixOperator", "Comment"}

\* C17: when the first token after an LParen written at column c is an
\* LParen, a PrefixOperator or a Comment, exactly one entry is pushed for
\* the list, flagged non-operator, with level c + default_indentation.
C17_DefaultLevel ==
  \A h \in 1..N :
    DefaultHead(h) =>
      LET b == trace[h].before
          a == trace[h].after
          d == Len(b.levels) + 1
      IN /\ Len(a.levels) >= d
         /\ SubSeq(a.levels, 1, d - 1) = b.levels
         /\ a.levels[d] = ParenColumn(h - 1) + b.default_indentation
         /\ ~a.is_operator[d]
         /\ NonOperatorEntries(a) = NonOperatorEntries(b) + 1

----------------------------------------------------------------------------
(* C18 *)

WritesText(n) == Kind(n) \in {"Atom", "LParen", "PrefixOperator", "Comment"}

\* C18: a token written directly after an atom or an RParen on the same
\* line has exactly one space before it; no space is written between an
\* LParen and its head atom, list or prefix operator, between a
\* PrefixOperator and the token after it, or before an RParen.  Stated of
\* the last token formatted, in every state.
SeparatedRight(n) ==
  /\ (WritesText(n) /\ Kind(n - 1) \in {"Atom", "RParen"}) =>
       /\ LeadingSpaces(n) = 1
       /\ trace[n].after.output[Len(trace[n].before.output) + 1] = SP
  /\ (Kind(n - 1) = "LParen" /\ Kind(n) \in {"Atom", "LParen", "PrefixOperator"}) =>
       LeadingSpaces(n) = 0
  /\ (Kind(n - 1) = "PrefixOperator" /\ WritesText(n)) =>
       LeadingSpaces(n) = 0

NoSpaceBeforeRParen(n) ==
  Kind(n) = "RParen" =>
    LET a == trace[n].after.output
    IN /\ a = Append(StripTrailingNewLines(trace[n].before.output), ")")
       /\ Len(a) >= 2 => a[Len(a) - 1] # SP

C18_SeparatingSpace ==
  /\ N >= 2 => SeparatedRight(N)
  /\ N >= 1 => NoSpaceBeforeRParen(N)

\* On one line: an atom after an atom, a list after an atom with its head
\* atom, and the closing parenthesis.
C18_Witness ==
  /\ N >= 5
  /\ Kind(N - 4) = "Atom"
  /\ Kind(N - 3) = "Atom"
  /\ Kind(N - 2) = "LParen"
  /\ Kind(N - 1) = "Atom"
  /\ Kind(N) = "RParen"
  /\ LastBreak(formatter.output) = 0

----------------------------------------------------------------------------
(* C19 *)

NoExcessRParen == \A n \in 1..N : ~ExcessRParen(n)

\* The open lists that have received their first child: every open list,
\* but the innermost one while the formatter still awaits its head.
ListsWithChild(n) ==
  Len(OpenStack(n)) - (IF trace[n].after.awaiting_new_level THEN 1 ELSE 0)

\* C19: after every token of a stream without excess RParen, is_operator
\* has no two adjacent TRUE entries, its FALSE entries are as many as the
\* open lists that have received their first child, and the stacks are at
\* most 2 * (open lists) + 1 deep.  Stated of the formatter after the last
\* token, in every state.
C19_StackShape ==
  (N >= 1 /\ NoExcessRParen) =>
    LET a == trace[N].after
    IN /\ \A i \in 1..(Len(a.is_operator) - 1) :
            ~(a.is_operator[i] /\ a.is_operator[i + 1])
       /\ NonOperatorEntries(a) = ListsWithChild(N)
       /\ Len(a.levels) <= 2 * Len(OpenStack(N)) + 1

\* A stream without excess RParen reached the deepest stacks one open list
\* allows: an operator entry, the list's level, an operator entry.
C19_Witness ==
  /\ NoExcessRParen
  /\ N >= 4
  /\ Len(OpenStack(N)) = 1
  /\ formatter.is_operator = <<TRUE, FALSE, TRUE>>
  /\ \E n \in 1..N : Kind(n) = "RParen"

----------------------------------------------------------------------------
(* C20 *)

\* C20: whenever awaiting_new_level is true the output ends with "(" and
\* x >= 1, and no level on the stacks is below zero.
C20_NoUnderflow ==
  /\ formatter.awaiting_new_level =>
       /\ formatter.output # <<>>
       /\ Last(formatter.output) = "("
       /\ formatter.x >= 1
  /\ \A i \in 1..Len(formatter.levels) : formatter.levels[i] >= 0

\* With default_indentation = 0 a list whose head is a list resolved the
\* level 0, and a head atom with custom indentation Some(0) resolved a
\* level too.
C20_Witness ==
  /\ formatter.default_indentation = 0
  /\ N >= 3
  /\ Kind(1) = "LParen"
  /\ Kind(2) = "LParen"
  /\ trace[2].after.levels = <<0>>
  /\ Kind(3) = "Atom"
  /\ trace[3].token.custom_indentation = Some(0)
  /\ trace[3].after.levels = <<0, 1>>

====
